---- MODULE Spec2Model ----
(***************************************************************************)
(* Model of src/src/poisson.rs: calculate_poisson_estimate, the HDR merge  *)
(* by the "Poisson Photon Noise Estimator".                                *)
(*                                                                         *)
(* Every sample is an f32.  An f32 is modelled by its three IEEE-754       *)
(* binary32 fields, [sign |-> 0..1, exp |-> 0..255, man |-> 0..2^23-1]:    *)
(* f32::to_bits(x) = sign * 2^31 + exp * 2^23 + man.  1.0 is               *)
(* [sign |-> 0, exp |-> 127, man |-> 0].  Every NaN is modelled by the one *)
(* value NaN (Rust leaves a NaN's sign and payload unspecified).           *)
(* Add, Mul and Div round to nearest, ties to even, as the hardware does.  *)
(***************************************************************************)
EXTENDS Integers, Sequences, FiniteSets, TLC

(***************************************************************************)
(* f32 arithmetic                                                          *)
(***************************************************************************)
F32(s, e, m) == [sign |-> s, exp |-> e, man |-> m]

\* f32::from_bits for a bit pattern below 2^31 (a value with sign 0).
FromBits(b) == F32(0, b \div (2^23), b % (2^23))

\* f32::to_bits of a value with sign 0.
ToBits(x) == x.exp * (2^23) + x.man

Zero(s) == F32(s, 0, 0)

Inf(s) == F32(s, 255, 0)

NaN == F32(0, 255, 2^22)

One == F32(0, 127, 0)

IsNaN(x) == x.exp = 255 /\ x.man # 0

IsInf(x) == x.exp = 255 /\ x.man = 0

IsZero(x) == x.exp = 0 /\ x.man = 0

\* The integer significand and the exponent of a finite x: |x| = Sig(x) * 2^Exp(x).
Sig(x) == IF x.exp = 0 THEN x.man ELSE x.man + 2^23

Exp(x) == IF x.exp = 0 THEN -149 ELSE x.exp - 150

\* The number of bits of m, 0 <= m < 2^30: 0 for 0.
BitLen(m) == IF m = 0 THEN 0 ELSE CHOOSE n \in 1..30 : 2^(n-1) <= m /\ m < 2^n

\* |x| = NormSig(x) * 2^NormExp(x) with NormSig(x) in [2^23, 2^24), x finite and not 0.
NormSig(x) == Sig(x) * 2^(24 - BitLen(Sig(x)))

NormExp(x) == Exp(x) - (24 - BitLen(Sig(x)))

\* m shifted right by d bits, any bit shifted out kept ("jammed") in bit 0.
ShiftRightJam(m, d) ==
    IF d = 0 THEN m
    ELSE IF d >= 30 THEN (IF m = 0 THEN 0 ELSE 1)
    ELSE LET q == m \div (2^d)
             lost == (m % (2^d)) # 0
         IN  IF lost /\ q % 2 = 0 THEN q + 1 ELSE q

\* The f32 nearest to (-1)^s * m * 2^e, ties to even; 0 <= m < 2^30, and bit 0
\* of m may be a jammed bit when m has at least 26 bits.
RoundPack(s, e, m) ==
    IF m = 0 THEN Zero(s)
    ELSE
    LET n  == BitLen(m)
        a  == n - 24
        b  == (-149) - e
        sh == IF a >= b THEN a ELSE b
    IN  IF sh > n THEN Zero(s)
        ELSE
        LET q0   == IF sh <= 0 THEN m * 2^(-sh) ELSE m \div (2^sh)
            rem  == IF sh <= 0 THEN 0 ELSE m % (2^sh)
            half == IF sh <= 0 THEN 1 ELSE 2^(sh - 1)
            up   == rem > half \/ (rem = half /\ q0 % 2 = 1)
            q1   == IF up THEN q0 + 1 ELSE q0
            q    == IF q1 = 2^24 THEN 2^23 ELSE q1
            eu   == IF q1 = 2^24 THEN e + sh + 1 ELSE e + sh
        IN  IF q = 0 THEN Zero(s)
            ELSE IF q < 2^23 THEN F32(s, 0, q)
            ELSE IF eu + 150 >= 255 THEN Inf(s)
            ELSE F32(s, eu + 150, q - 2^23)

\* x + y of two finite operands, neither of them 0.
AddFinite(x, y) ==
    LET swap == Exp(x) < Exp(y)
        hi == IF swap THEN y ELSE x
        lo == IF swap THEN x ELSE y
        d  == Exp(hi) - Exp(lo)
        mh == Sig(hi) * 8
        ml == ShiftRightJam(Sig(lo) * 8, d)
        e  == Exp(hi) - 3
    IN  IF hi.sign = lo.sign THEN RoundPack(hi.sign, e, mh + ml)
        ELSE IF mh = ml THEN Zero(0)
        ELSE IF mh > ml THEN RoundPack(hi.sign, e, mh - ml)
        ELSE RoundPack(lo.sign, e, ml - mh)

\* f32 + f32.
Add(x, y) ==
    IF IsNaN(x) \/ IsNaN(y) THEN NaN
    ELSE IF IsInf(x) THEN (IF IsInf(y) /\ x.sign # y.sign THEN NaN ELSE x)
    ELSE IF IsInf(y) THEN y
    ELSE IF IsZero(x) /\ IsZero(y) THEN Zero(IF x.sign = 1 /\ y.sign = 1 THEN 1 ELSE 0)
    ELSE IF IsZero(x) THEN y
    ELSE IF IsZero(y) THEN x
    ELSE AddFinite(x, y)

\* x * y of two finite operands, neither of them 0: the 48-bit product of the
\* significands is formed from 12-bit halves.
MulFinite(x, y) ==
    LET sx == NormSig(x)
        sy == NormSig(y)
        x1 == sx \div 4096
        x0 == sx % 4096
        y1 == sy \div 4096
        y0 == sy % 4096
        mid == x1 * y0 + x0 * y1
        t  == x0 * y0 + (mid % 4096) * 4096
        lo == t % (2^24)
        hi == x1 * y1 + mid \div 4096 + t \div (2^24)
        m0 == hi * 64 + lo \div (2^18)
        m  == IF lo % (2^18) # 0 /\ m0 % 2 = 0 THEN m0 + 1 ELSE m0
    IN  RoundPack((x.sign + y.sign) % 2, NormExp(x) + NormExp(y) + 18, m)

\* f32 * f32.
Mul(x, y) ==
    LET s == (x.sign + y.sign) % 2
    IN  IF IsNaN(x) \/ IsNaN(y) THEN NaN
        ELSE IF IsInf(x) \/ IsInf(y) THEN (IF IsZero(x) \/ IsZero(y) THEN NaN ELSE Inf(s))
        ELSE IF IsZero(x) \/ IsZero(y) THEN Zero(s)
        ELSE MulFinite(x, y)

\* Long division: k more quotient bits of r / d appended to q; <<quotient, remainder>>.
RECURSIVE DivBits(_, _, _, _)
DivBits(r, d, q, k) ==
    IF k = 0 THEN <<q, r>>
    ELSE IF 2 * r >= d THEN DivBits(2 * r - d, d, 2 * q + 1, k - 1)
    ELSE DivBits(2 * r, d, 2 * q, k - 1)

\* x / y of two finite operands, neither of them 0.
DivFinite(x, y) ==
    LET sx == NormSig(x)
        sy == NormSig(y)
        qr == DivBits(sx % sy, sy, sx \div sy, 27)
        m  == 2 * qr[1] + (IF qr[2] # 0 THEN 1 ELSE 0)
    IN  RoundPack((x.sign + y.sign) % 2, NormExp(x) - NormExp(y) - 28, m)

\* f32 / f32.
Div(x, y) ==
    LET s == (x.sign + y.sign) % 2
    IN  IF IsNaN(x) \/ IsNaN(y) THEN NaN
        ELSE IF IsInf(x) THEN (IF IsInf(y) THEN NaN ELSE Inf(s))
        ELSE IF IsInf(y) THEN Zero(s)
        ELSE IF IsZero(y) THEN (IF IsZero(x) THEN NaN ELSE Inf(s))
        ELSE IF IsZero(x) THEN Zero(s)
        ELSE DivFinite(x, y)

(***************************************************************************)
(* Bounds and inputs                                                       *)
(***************************************************************************)
\* The longest list of paths one call is given.
MaxImages == 3

\* The number of image files of Disk a path may name.
NumFiles == 4

\* The image files: what read_image(path) and to_rgb32f() decode (an RGB f32
\* buffer, three samples a pixel) and what the file's metadata gives as its
\* exposure and gain.
\*   1: one pixel [10, 20, 30], exposure 1, gain 1
\*   2: one pixel [5, 10, 15], exposure 3, gain 1
\*   3: one pixel [7/255, 1, 0.5], exposure 3, gain 1.5
\*   4: two pixels [0.25, 0.75, 0, 1, 0.1, 0.6], exposure 0.5, gain 2
\*   5: one pixel [0.2, 0.4, 0.8], exposure 1/60, gain 8
Disk ==
    << [pixels |-> <<FromBits(1092616192), FromBits(1101004800), FromBits(1106247680)>>,
        exposure |-> FromBits(1065353216), gain |-> FromBits(1065353216)],
       [pixels |-> <<FromBits(1084227584), FromBits(1092616192), FromBits(1097859072)>>,
        exposure |-> FromBits(1077936128), gain |-> FromBits(1065353216)],
       [pixels |-> <<FromBits(1021370593), FromBits(1065353216), FromBits(1056964608)>>,
        exposure |-> FromBits(1077936128), gain |-> FromBits(1069547520)],
       [pixels |-> <<FromBits(1048576000), FromBits(1061158912), FromBits(0),
                     FromBits(1065353216), FromBits(1036831949), FromBits(1058642330)>>,
        exposure |-> FromBits(1056964608), gain |-> FromBits(1073741824)],
       [pixels |-> <<FromBits(1045220557), FromBits(1053609165), FromBits(1061997773)>>,
        exposure |-> FromBits(1015580809), gain |-> FromBits(1090519040)] >>

\* The length of the longest pixel buffer of the files a path may name.
MaxSamples == CHOOSE n \in {Len(Disk[f].pixels) : f \in 1..NumFiles} : \A f \in 1..NumFiles : Len(Disk[f].pixels) <= n

\* The lists of paths a call may be given; a path is the number of its file.
PathLists == UNION {[1..n -> 1..NumFiles] : n \in 0..MaxImages}

(***************************************************************************)
(* The pure parts of calculate_poisson_estimate                            *)
(***************************************************************************)
RED_COEFFICIENT == One

GREEN_COEFFICIENT == One

BLUE_COEFFICIENT == One

\* ScaleChunk with the gain left out of scaling_factor.
ScaleChunk_NoGain(r, g, b, exposure, gain) ==
    << Div(r, Mul(exposure, RED_COEFFICIENT)),
       Div(g, Mul(exposure, GREEN_COEFFICIENT)),
       Div(b, Mul(exposure, BLUE_COEFFICIENT)) >>

\* The closure of flat_map: one [r, g, b] chunk scaled.
ScaleChunk(r, g, b, exposure, gain) ==
    LET scaling_factor == Mul(exposure, gain)
    IN  << Div(r, Mul(scaling_factor, RED_COEFFICIENT)),
           Div(g, Mul(scaling_factor, GREEN_COEFFICIENT)),
           Div(b, Mul(scaling_factor, BLUE_COEFFICIENT)) >>

\* pixels.chunks_exact(3).flat_map(..).collect(), from the chunk that starts at
\* offset k (0-based); a remainder shorter than 3 is dropped by chunks_exact.
RECURSIVE ScaleFrom(_, _, _, _)
ScaleFrom(pixels, k, exposure, gain) ==
    IF k + 3 > Len(pixels) THEN <<>>
    ELSE ScaleChunk(pixels[k + 1], pixels[k + 2], pixels[k + 3], exposure, gain)
         \o ScaleFrom(pixels, k + 3, exposure, gain)

\* The closure of the outer map: one image's scaled_radiances.
ScaledRadiances(pixels, exposure, gain) == ScaleFrom(pixels, 0, exposure, gain)

\* exposures.iter().sum() from the additive identity zero (0.0, or -0.0 with a
\* standard library that sums floats from -0.0).
RECURSIVE SumFrom(_, _, _)
SumFrom(exposures, k, total) ==
    IF k > Len(exposures) THEN total
    ELSE SumFrom(exposures, k + 1, Add(total, exposures[k]))

\* FoldSample weighting only the current radiance, the accumulator added after.
FoldSample_WeightCurrent(previous, current, exposure, sum) ==
    Add(previous, Div(Mul(current, exposure), sum))

\* The closure of the inner map: one sample of one fold step.
FoldSample(previous, current, exposure, sum) ==
    Div(Mul(Add(previous, current), exposure), sum)

\* The number of pairs acc.par_iter().zip(radiances) yields: zip stops with the
\* shorter of the two.
ZipLen(a, b) == IF Len(a) <= Len(b) THEN Len(a) ELSE Len(b)

\* FirstRadiance as zeros of the first radiance's length.
FirstRadiance_Zeroed(rs) == [j \in 1..Len(rs[1]) |-> Zero(0)]

\* FirstRadiance as ones of the first radiance's length.
FirstRadiance_Ones(rs) == [j \in 1..Len(rs[1]) |-> One]

\* radiances.first()...clone() of a list that is not empty.
FirstRadiance(rs) == rs[1]

\* The samples of one fold step from position j on, one after the other.
RECURSIVE FoldStepFrom(_, _, _, _, _)
FoldStepFrom(a, current, exposure, sum, j) ==
    IF j > ZipLen(a, current) THEN <<>>
    ELSE <<FoldSample(a[j], current[j], exposure, sum)>> \o FoldStepFrom(a, current, exposure, sum, j + 1)

\* One whole fold step, its tasks run one after the other: the closure of fold.
FoldStep(a, current, exposure, sum) == FoldStepFrom(a, current, exposure, sum, 1)

\* The fold from the step of (1-based) position i on, its steps run in order.
RECURSIVE FoldFrom(_, _, _, _, _)
FoldFrom(a, rs, es, sum, i) ==
    IF i > Len(rs) THEN a
    ELSE FoldFrom(FoldStep(a, rs[i], es[i], sum), rs, es, sum, i + 1)

\* phi of a list of radiances that is not empty, computed sequentially.
Phi(rs, es, sum) == FoldFrom(FirstRadiance(rs), rs, es, sum, 1)

\* radiances of the decoded buffers from position i on, computed one after the other.
RECURSIVE RadiancesFrom(_, _, _, _)
RadiancesFrom(bufs, es, gs, i) ==
    IF i > Len(bufs) THEN <<>>
    ELSE <<ScaledRadiances(bufs[i], es[i], gs[i])>> \o RadiancesFrom(bufs, es, gs, i + 1)

\* radiances of decoded buffers, computed sequentially.
Radiances(bufs, es, gs) == RadiancesFrom(bufs, es, gs, 1)

\* The whole computation on decoded buffers that are not empty, run sequentially.
Estimate(bufs, es, gs) == Phi(Radiances(bufs, es, gs), es, SumFrom(es, 1, Zero(0)))

(***************************************************************************)
(* The state                                                               *)
(***************************************************************************)
VARIABLES
    paths,          \* the argument: a sequence of file numbers
    pc,             \* where the call is: exif, exposures, gains, read, scale,
                    \* sum, first, fold, done
    exposures,      \* Vec<f32>
    gains,          \* Vec<f32>
    images,         \* the read_image tasks that ran: index -> [ok, pixels]
    radiances,      \* the scaler tasks that ran: index -> Vec<f32>
    sum_exposures,  \* f32
    acc,            \* the fold's accumulator
    index,          \* the fold's index, 0-based as enumerate() gives it
    out,            \* the samples of the running fold step written so far
    result          \* what the call returned: [tag, err, phi]

vars == <<paths, pc, exposures, gains, images, radiances, sum_exposures, acc, index, out, result>>

N == Len(paths)

\* The tags of Error this function returns: the four collaborators' errors,
\* passed on by `?`, and its own UnknownError("Invalid radiances").
MetadataErrors == {"get_exif_data", "get_exposures", "get_gains"}

DecodeError == "read_image"

UnknownError == "UnknownError"

Pending == [tag |-> "Pending", err |-> "", phi |-> <<>>]

Err(e) == [tag |-> "Err", err |-> e, phi |-> <<>>]

Ok(phi) == [tag |-> "Ok", err |-> "", phi |-> phi]

\* A vector from the slots 1..n of the tasks' results.
Collected(f, n) == [i \in 1..n |-> f[i]]

Init ==
    /\ paths \in PathLists
    /\ pc = "exif"
    /\ exposures = <<>>
    /\ gains = <<>>
    /\ images = <<>>
    /\ radiances = <<>>
    /\ sum_exposures = Zero(0)
    /\ acc = <<>>
    /\ index = 0
    /\ out = <<>>
    /\ result = Pending

\* The `?` of get_exif_data, get_exposures, get_gains and images: return the error.
Fail(e) ==
    /\ result' = Err(e)
    /\ pc' = "done"

(***************************************************************************)
(* The steps of calculate_poisson_estimate                                 *)
(***************************************************************************)
\* let exif = get_exif_data(paths)?;
GetExifData ==
    /\ pc = "exif"
    /\ \/ /\ pc' = "exposures"
          /\ UNCHANGED result
       \/ Fail("get_exif_data")
    /\ UNCHANGED <<paths, exposures, gains, images, radiances, sum_exposures, acc, index, out>>

\* let exposures = get_exposures(&exif)?;
GetExposures ==
    /\ pc = "exposures"
    /\ \/ /\ exposures' = [i \in 1..N |-> Disk[paths[i]].exposure]
          /\ pc' = "gains"
          /\ UNCHANGED result
       \/ /\ Fail("get_exposures")
          /\ UNCHANGED exposures
    /\ UNCHANGED <<paths, gains, images, radiances, sum_exposures, acc, index, out>>

\* let gains = get_gains(&exif)?;
GetGains ==
    /\ pc = "gains"
    /\ \/ /\ gains' = [i \in 1..N |-> Disk[paths[i]].gain]
          /\ pc' = "read"
          /\ UNCHANGED result
       \/ /\ Fail("get_gains")
          /\ UNCHANGED gains
    /\ UNCHANGED <<paths, exposures, images, radiances, sum_exposures, acc, index, out>>

\* One task of paths.par_iter().map(read_image): the file decodes or it does not.
ReadImage(i) ==
    /\ pc = "read"
    /\ i \in 1..N
    /\ i \notin DOMAIN images
    /\ \/ images' = images @@ (i :> [ok |-> TRUE, pixels |-> Disk[paths[i]].pixels])
       \/ images' = images @@ (i :> [ok |-> FALSE, pixels |-> <<>>])
    /\ UNCHANGED <<paths, pc, exposures, gains, radiances, sum_exposures, acc, index, out, result>>

\* Every read_image task ran.
ImagesComplete == DOMAIN images = 1..N

\* Some read_image task failed.
ImagesFailed == \E i \in DOMAIN images : ~images[i].ok

\* CollectImages keeping on with the images that did decode, no error returned.
CollectImages_SkipFailed ==
    /\ pc = "read"
    /\ ImagesComplete
    /\ pc' = "scale"
    /\ UNCHANGED <<paths, exposures, gains, images, radiances, sum_exposures, acc, index, out, result>>

\* .collect() into Result<Vec<DynamicImage>, Error>, and the `?` on images: a
\* failed task ends the collection, whether or not the other tasks ran.
CollectImages ==
    /\ pc = "read"
    /\ \/ /\ ImagesFailed
          /\ Fail(DecodeError)
       \/ /\ ImagesComplete
          /\ ~ImagesFailed
          /\ pc' = "scale"
          /\ UNCHANGED result
    /\ UNCHANGED <<paths, exposures, gains, images, radiances, sum_exposures, acc, index, out>>

\* One task of images.par_iter().zip(&exposures).zip(gains).map(..).
ScaleImage(i) ==
    /\ pc = "scale"
    /\ i \in 1..N
    /\ i \notin DOMAIN radiances
    /\ radiances' = radiances @@ (i :> ScaledRadiances(images[i].pixels, exposures[i], gains[i]))
    /\ UNCHANGED <<paths, pc, exposures, gains, images, sum_exposures, acc, index, out, result>>

\* Every scaler task ran.
RadiancesComplete == DOMAIN radiances = 1..N

\* .collect() into Vec<Vec<f32>>.
CollectRadiances ==
    /\ pc = "scale"
    /\ RadiancesComplete
    /\ radiances' = Collected(radiances, N)
    /\ pc' = "sum"
    /\ UNCHANGED <<paths, exposures, gains, images, sum_exposures, acc, index, out, result>>

\* let sum_exposures: f32 = exposures.iter().sum();
SumExposures ==
    /\ pc = "sum"
    /\ \E s \in 0..1 : sum_exposures' = SumFrom(exposures, 1, Zero(s))
    /\ pc' = "first"
    /\ UNCHANGED <<paths, exposures, gains, images, radiances, acc, index, out, result>>

\* radiances.first().ok_or(UnknownError("Invalid radiances"))?.clone(): the
\* fold's initial accumulator.
First ==
    /\ pc = "first"
    /\ \/ /\ Len(radiances) = 0
          /\ Fail(UnknownError)
          /\ UNCHANGED <<acc, index>>
       \/ /\ Len(radiances) > 0
          /\ acc' = FirstRadiance(radiances)
          /\ index' = 0
          /\ pc' = "fold"
          /\ UNCHANGED result
    /\ UNCHANGED <<paths, exposures, gains, images, radiances, sum_exposures, out>>

\* One task of acc.par_iter().zip(radiances).map(..) in the fold step of index.
FoldTask(j) ==
    /\ pc = "fold"
    /\ index < Len(radiances)
    /\ j \in 1..ZipLen(acc, radiances[index + 1])
    /\ j \notin DOMAIN out
    /\ out' = out @@ (j :> FoldSample(acc[j], radiances[index + 1][j], exposures[index + 1], sum_exposures))
    /\ UNCHANGED <<paths, pc, exposures, gains, images, radiances, sum_exposures, acc, index, result>>

\* Every task of the running fold step ran.
StepComplete == DOMAIN out = 1..ZipLen(acc, radiances[index + 1])

\* CollectStep that updates the accumulator in place and does not wait for the
\* step's tasks: a sample not yet written keeps the previous step's value.
CollectStep_NoBarrier ==
    /\ pc = "fold"
    /\ index < Len(radiances)
    /\ DOMAIN out # {}
    /\ acc' = [j \in 1..ZipLen(acc, radiances[index + 1]) |-> IF j \in DOMAIN out THEN out[j] ELSE acc[j]]
    /\ out' = <<>>
    /\ index' = index + 1
    /\ UNCHANGED <<paths, pc, exposures, gains, images, radiances, sum_exposures, result>>

\* .collect() of one fold step: its vector is the next accumulator.
CollectStep ==
    /\ pc = "fold"
    /\ index < Len(radiances)
    /\ StepComplete
    /\ acc' = Collected(out, ZipLen(acc, radiances[index + 1]))
    /\ out' = <<>>
    /\ index' = index + 1
    /\ UNCHANGED <<paths, pc, exposures, gains, images, radiances, sum_exposures, result>>

\* Ok(phi)
Return ==
    /\ pc = "fold"
    /\ index = Len(radiances)
    /\ result' = Ok(acc)
    /\ pc' = "done"
    /\ UNCHANGED <<paths, exposures, gains, images, radiances, sum_exposures, acc, index, out>>

Next ==
    \/ GetExifData
    \/ GetExposures
    \/ GetGains
    \/ \E i \in 1..MaxImages : ReadImage(i)
    \/ CollectImages
    \/ \E i \in 1..MaxImages : ScaleImage(i)
    \/ CollectRadiances
    \/ SumExposures
    \/ First
    \/ \E j \in 1..MaxSamples : FoldTask(j)
    \/ CollectStep
    \/ Return

Spec == Init /\ [][Next]_vars
(***************************************************************************)
(* The claims                                                              *)
(***************************************************************************)
\* The call returned Ok(phi).
Returned == pc = "done" /\ result.tag = "Ok"

\* The decoded pixel buffers, in the order of paths (every image decoded).
Buffers == [i \in 1..N |-> images[i].pixels]

\* Every radiance buffer has the same length.
EqualLengths == \A a, b \in 1..Len(radiances) : Len(radiances[a]) = Len(radiances[b])

\* x is 2^n, a normal f32.
IsPow2(x) == x.sign = 0 /\ x.man = 0 /\ x.exp \in 1..254

\* x is 0 or a normal f32: not the result of an overflow or an underflow.
Regular(x) == IsZero(x) \/ x.exp \in 1..254

\* x > y for two f32 that are not negative and not NaN.
Greater(x, y) == ToBits(x) > ToBits(y)

\* C1: a call with an empty Image Set fails with the insufficient-input error,
\* a tag that is not the unknown-error tag; it never returns a success result.
C1_InsufficientInputError ==
    (pc = "done" /\ N = 0) => (result.tag = "Err" /\ result.err # UnknownError)

\* Sample j of the merged buffer by the recurrence, from step i on, v the
\* accumulator's sample: v = (v + radiance[i][j]) * exposure[i] / S.
RECURSIVE MergedSample(_, _, _)
MergedSample(j, i, v) ==
    IF i > N THEN v
    ELSE MergedSample(j, i + 1, Div(Mul(Add(v, radiances[i][j]), exposures[i]), sum_exposures))

\* C2: with N >= 1 radiance buffers of equal length, every sample of the merged
\* buffer is the accumulator seeded with radiance[0] and updated for i = 0..N-1,
\* in order, by acc = (acc + radiance[i]) * exposure[i] / S; radiances [10,20,30]
\* and [5/3,10/3,5] with exposures 1 and 3 merge to [5,10,15].
C2_FoldRecurrence ==
    (Returned /\ EqualLengths) =>
        /\ Len(result.phi) = Len(radiances[1])
        /\ \A j \in 1..Len(radiances[1]) : result.phi[j] = MergedSample(j, 1, radiances[1][j])
        /\ paths = <<1, 2>> =>
            /\ radiances = << <<FromBits(1092616192), FromBits(1101004800), FromBits(1106247680)>>,
                              <<FromBits(1070945621), FromBits(1079334229), FromBits(1084227584)>> >>
            /\ result.phi = <<FromBits(1084227584), FromBits(1092616192), FromBits(1097859072)>>

C2_Witness == Returned /\ paths = <<1, 2>>

\* C3, as stated: with one image every merged sample is exactly twice the
\* image's radiance sample.
C3_ExactlyTwice ==
    (Returned /\ N = 1) =>
        \A j \in 1..Len(radiances[1]) : result.phi[j] = Add(radiances[1][j], radiances[1][j])

\* C3, amended: with one image of exposure e every merged sample is
\* ((r + r) * e) / e, each operation rounded to f32; that is exactly twice r when
\* e is a power of two and neither r + r nor (r + r) * e overflows or underflows.
C3_TwiceRounded ==
    (Returned /\ N = 1) =>
        /\ Len(result.phi) = Len(radiances[1])
        /\ \A j \in 1..Len(radiances[1]) :
            LET twice == Add(radiances[1][j], radiances[1][j])
                e == exposures[1]
            IN  /\ result.phi[j] = Div(Mul(twice, e), e)
                /\ (IsPow2(e) /\ Regular(twice) /\ Regular(Mul(twice, e))) => result.phi[j] = twice

C3_Witness ==
    /\ Returned
    /\ N = 1
    /\ IsPow2(exposures[1])
    /\ ~IsZero(result.phi[1])
    /\ result.phi[1] = Add(radiances[1][1], radiances[1][1])

\* C4: the radiance buffer of every image has the length and the R,G,B order of
\* its pixel buffer, and its samples are r/(E*G*Cr), g/(E*G*Cg), b/(E*G*Cb) with
\* E and G the exposure and the gain of that same image.
C4_RadianceScaler ==
    pc \in {"scale", "sum"} => \A i \in DOMAIN radiances :
        LET px == images[i].pixels
            E == Disk[paths[i]].exposure
            G == Disk[paths[i]].gain
        IN  Len(px) % 3 = 0 =>
            /\ Len(radiances[i]) = Len(px)
            /\ \A k \in 0..(Len(px) \div 3 - 1) :
                /\ radiances[i][3 * k + 1] = Div(px[3 * k + 1], Mul(Mul(E, G), RED_COEFFICIENT))
                /\ radiances[i][3 * k + 2] = Div(px[3 * k + 2], Mul(Mul(E, G), GREEN_COEFFICIENT))
                /\ radiances[i][3 * k + 3] = Div(px[3 * k + 3], Mul(Mul(E, G), BLUE_COEFFICIENT))

C4_Witness ==
    /\ pc = "scale"
    /\ 2 \in DOMAIN radiances
    /\ 1 \notin DOMAIN radiances
    /\ Mul(exposures[1], gains[1]) # Mul(exposures[2], gains[2])
    /\ Len(radiances[2]) = 6

\* C5: a computation whose radiance buffers do not all have the same length
\* fails; it never returns a success result.
C5_MismatchIsShapeError ==
    (pc = "done" /\ ~EqualLengths) => result.tag = "Err"

\* C6: during the fold and in a successful result, the accumulator has the
\* length of each input pixel buffer.
C6_LengthPreserved ==
    (pc = "fold" \/ Returned) => \A i \in 1..N : Len(acc) = Len(images[i].pixels)

\* The exposures of the files a path may name.
ExposureValues == {Disk[f].exposure : f \in 1..NumFiles}

\* n radiance buffers of n samples, buffer i being 1 at sample i and 0 elsewhere:
\* sample k of their merge is the coefficient that multiplies radiance[k].
UnitRadiances(n) == [i \in 1..n |-> [j \in 1..n |-> IF i = j THEN One ELSE Zero(0)]]

Coefficients(es) == Phi(UnitRadiances(Len(es)), es, SumFrom(es, 1, Zero(0)))

\* The coefficient of image k divided by the sum of the coefficients.
RelContribution(es, k) == Div(Coefficients(es)[k], SumFrom(Coefficients(es), 1, Zero(0)))

\* C7: with N >= 2, raising the exposure of one image, the others kept, strictly
\* raises that image's relative contribution to the merged buffer.
C7_ExposureMonotone ==
    (Returned /\ N >= 2) =>
        \A k \in 1..N : \A e \in ExposureValues :
            Greater(e, exposures[k]) =>
                Greater(RelContribution([exposures EXCEPT ![k] = e], k), RelContribution(exposures, k))

\* The constants the pixel samples are multiplied by: 2, 0.5 and 3.
KValues == {FromBits(1073741824), FromBits(1056964608), FromBits(1077936128)}

\* The samples of buf from position j on, multiplied by k.
RECURSIVE ScaledBuffer(_, _, _)
ScaledBuffer(k, buf, j) ==
    IF j > Len(buf) THEN <<>> ELSE <<Mul(k, buf[j])>> \o ScaledBuffer(k, buf, j + 1)

\* Every sample of the buffers from position i on multiplied by k.
RECURSIVE ScaledFrom(_, _, _)
ScaledFrom(k, bufs, i) ==
    IF i > Len(bufs) THEN <<>> ELSE <<ScaledBuffer(k, bufs[i], 1)>> \o ScaledFrom(k, bufs, i + 1)

\* Every sample of every buffer multiplied by k.
Scaled(k, bufs) == ScaledFrom(k, bufs, 1)

\* No sum, product or quotient of the fold from step i on, a the accumulator,
\* overflows or underflows.
RECURSIVE RegularFold(_, _, _)
RegularFold(a, rs, i) ==
    \/ i > Len(rs)
    \/ /\ \A j \in 1..ZipLen(a, rs[i]) :
            /\ Regular(Add(a[j], rs[i][j]))
            /\ Regular(Mul(Add(a[j], rs[i][j]), exposures[i]))
            /\ Regular(FoldSample(a[j], rs[i][j], exposures[i], sum_exposures))
       /\ RegularFold(FoldStep(a, rs[i], exposures[i], sum_exposures), rs, i + 1)

\* No intermediate result of the computation on bufs overflows or underflows.
RegularRun(bufs) ==
    LET rs == Radiances(bufs, exposures, gains)
    IN  /\ \A i \in 1..Len(bufs) :
            /\ Regular(Mul(exposures[i], gains[i]))
            /\ \A j \in 1..Len(bufs[i]) : Regular(bufs[i][j]) /\ Regular(rs[i][j])
        /\ RegularFold(FirstRadiance(rs), rs, 1)

\* C8, as stated: every pixel sample multiplied by k, the exposures and gains
\* kept, every merged sample is exactly k times what it was.
C8_ScalingExact ==
    Returned =>
        \A k \in KValues :
            Estimate(Scaled(k, Buffers), exposures, gains) = ScaledBuffer(k, result.phi, 1)

\* C8, amended: the same for k a power of two, when no intermediate result of
\* either computation overflows or underflows.
C8_ScalingByPowerOfTwo ==
    Returned =>
        \A k \in KValues :
            (IsPow2(k) /\ RegularRun(Buffers) /\ RegularRun(Scaled(k, Buffers))) =>
                Estimate(Scaled(k, Buffers), exposures, gains) = ScaledBuffer(k, result.phi, 1)

C8_Witness ==
    /\ Returned
    /\ N >= 2
    /\ ~IsZero(result.phi[1])
    /\ exposures[1] # exposures[2]
    /\ \E k \in KValues : IsPow2(k) /\ k # One /\ RegularRun(Buffers) /\ RegularRun(Scaled(k, Buffers))

\* C9: when the metadata lookup or the decode of an image fails, that error is
\* returned and no radiance is scaled and no fold step is run; the metadata is
\* obtained before any image is decoded, so a metadata error leaves no image
\* decoded; and the computation goes past the decoding only with every image
\* decoded.
C9_ErrorsShortCircuit ==
    /\ (result.tag = "Err" /\ result.err \in MetadataErrors \cup {DecodeError}) =>
            /\ pc = "done"
            /\ radiances = <<>>
            /\ acc = <<>>
            /\ out = <<>>
            /\ index = 0
            /\ result.phi = <<>>
    /\ (result.tag = "Err" /\ result.err \in MetadataErrors) => DOMAIN images = {}
    /\ DOMAIN images # {} => (pc \notin {"exif", "exposures", "gains"} /\ Len(exposures) = N /\ Len(gains) = N)
    /\ (pc \in {"scale", "sum", "first", "fold"} \/ Returned) =>
            (DOMAIN images = 1..N /\ \A i \in 1..N : images[i].ok)
    /\ result.tag = "Err" => result.err \in MetadataErrors \cup {DecodeError, UnknownError}

C9_Witness ==
    /\ result = Err(DecodeError)
    /\ \E i \in DOMAIN images : images[i].ok
    /\ \E i \in 1..N : i \notin DOMAIN images

\* C10: whatever the order the parallel tasks run in, every radiance buffer and
\* every fold step is what the sequential computation gives: the fold starts
\* with every radiance buffer complete, each step reads the whole accumulator
\* of the step before, each sample is written once, and the merged buffer is
\* that of the sequential run.
C10_SameAsSequential ==
    /\ pc = "scale" =>
            \A i \in DOMAIN radiances : radiances[i] = ScaledRadiances(images[i].pixels, exposures[i], gains[i])
    /\ (pc = "sum" \/ (pc = "fold" /\ out = <<>>) \/ Returned) =>
            radiances = Radiances(Buffers, exposures, gains)
    /\ pc = "fold" =>
            /\ out = <<>> => acc = FoldFrom(FirstRadiance(radiances), SubSeq(radiances, 1, index), exposures, sum_exposures, 1)
            /\ index < N =>
                /\ DOMAIN out \subseteq 1..ZipLen(acc, radiances[index + 1])
                /\ \A j \in DOMAIN out :
                    out[j] = FoldSample(acc[j], radiances[index + 1][j], exposures[index + 1], sum_exposures)
            /\ index = N => out = <<>>
    /\ pc # "fold" => out = <<>>
    /\ Returned => result.phi = Estimate(Buffers, exposures, gains)

C10_Witness ==
    /\ pc = "fold"
    /\ index = 1
    /\ 3 \in DOMAIN out
    /\ 1 \notin DOMAIN out
    /\ acc # radiances[1]
====
